---- MODULE Spec2Model ----
(***************************************************************************)
(* A model of bulk-domain-checker (src/src/index.js): the configuration    *)
(* reader, the candidate generator, the whois provider table, the whois    *)
(* child process with its event handlers, and the sequential run loop.     *)
(*                                                                         *)
(* JavaScript strings are sequences of one-character strings, so that      *)
(* length, concatenation, case folding and the regular expressions of the  *)
(* source are computed character by character.  Host names and the texts   *)
(* of thrown errors are never inspected by the program and stay opaque.    *)
(***************************************************************************)
EXTENDS Integers, Sequences, FiniteSets, TLC

(***************************************************************************)
(* Bounds of the model.                                                    *)
(***************************************************************************)
\* The generator's alphabet is the first AlphabetSize letters of a..z.
AlphabetSize == 2
\* A run is explored when its configuration generates at most this many
\* candidates.
MaxCandidates == 4
\* Largest "length" argument of a direct call of domainGenerator.
MaxGenLength == 4
\* Largest number of 'data' chunks one stream of one child process delivers.
MaxChunks == 1
\* Largest number of text fragments a whois output under test is made of.
MaxTextParts == 2

(***************************************************************************)
(* Characters and strings.                                                 *)
(***************************************************************************)
LowerCase == <<"a", "b", "c", "d", "e", "f", "g", "h", "i", "j", "k", "l", "m",
               "n", "o", "p", "q", "r", "s", "t", "u", "v", "w", "x", "y", "z">>
UpperCase == <<"A", "B", "C", "D", "E", "F", "G", "H", "I", "J", "K", "L", "M",
               "N", "O", "P", "Q", "R", "S", "T", "U", "V", "W", "X", "Y", "Z">>
Digits == <<"0", "1", "2", "3", "4", "5", "6", "7", "8", "9">>

Range(s) == {s[i] : i \in 1..Len(s)}

IndexOf(c, s) == CHOOSE i \in 1..Len(s) : s[i] = c

\* String.prototype.toLowerCase, character by character.
ToLowerChar(c) == IF c \in Range(UpperCase) THEN LowerCase[IndexOf(c, UpperCase)] ELSE c
ToLowerCase(s) == [i \in 1..Len(s) |-> ToLowerChar(s[i])]

\* The character classes \s and \w of JavaScript regular expressions.
IsSpace(c) == c \in {" ", "\t", "\n", "\r"}
IsWord(c) == c \in Range(LowerCase) \cup Range(UpperCase) \cup Range(Digits) \cup {"_"}

RECURSIVE TrimStart(_)
TrimStart(s) == IF s # <<>> /\ IsSpace(Head(s)) THEN TrimStart(Tail(s)) ELSE s
RECURSIVE TrimEnd(_)
TrimEnd(s) ==
  IF s # <<>> /\ IsSpace(s[Len(s)]) THEN TrimEnd(SubSeq(s, 1, Len(s) - 1)) ELSE s
\* String.prototype.trim
Trim(s) == TrimEnd(TrimStart(s))

(***************************************************************************)
(* JavaScript values as they come out of JSON.parse.  The three kinds have *)
(* different fields, so any two of them can be compared.                   *)
(***************************************************************************)
Undefined == [t |-> "undefined"]
Num(n) == [t |-> "number", n |-> n]
Str(s) == [t |-> "string", s |-> s]
NaN == [t |-> "NaN"]

\* a ?? b
Coalesce(a, b) == IF a.t = "undefined" THEN b ELSE a

RECURSIVE ParseDigits(_, _)
ParseDigits(s, acc) ==
  IF s = <<>> THEN acc ELSE ParseDigits(Tail(s), 10 * acc + (IndexOf(Head(s), Digits) - 1))

\* Number(v): a number is itself, an all-digit string is its value, the empty
\* string is 0, anything else is NaN.
JsNumber(v) ==
  CASE v.t = "number" -> v
    [] v.t = "string" ->
         IF \A i \in 1..Len(v.s) : v.s[i] \in Range(Digits)
         THEN Num(ParseDigits(v.s, 0))
         ELSE NaN
    [] OTHER -> NaN

RECURSIVE NatJsString(_)
NatJsString(n) ==
  IF n < 10 THEN <<Digits[n + 1]>> ELSE NatJsString(n \div 10) \o <<Digits[(n % 10) + 1]>>

\* String(v)
JsString(v) ==
  CASE v.t = "string" -> v.s
    [] v.t = "number" -> IF v.n < 0 THEN <<"-">> \o NatJsString(-v.n) ELSE NatJsString(v.n)
    [] v.t = "NaN" -> <<"N", "a", "N">>
    [] OTHER -> <<"u", "n", "d", "e", "f", "i", "n", "e", "d">>

(***************************************************************************)
(* Program constants.                                                      *)
(***************************************************************************)
MIN_LENGTH == 2
MAX_LENGTH == 63
ALPHABET == SubSeq(LowerCase, 1, AlphabetSize)
DEFAULT_INTERVAL_MS == 500
TldDe == <<"d", "e">>
TldNet == <<"n", "e", "t">>
TldEu == <<"e", "u">>
TldCom == <<"c", "o", "m">>
SUPPORTED_TLDS == {TldDe, TldNet, TldEu, TldCom}

(***************************************************************************)
(* readConfig, on the parsed content of config.json.                       *)
(***************************************************************************)
ConfigError(msg) == [ok |-> FALSE, error |-> msg]

\* validateAffix: TRUE when the value is returned, FALSE when it throws.
validateAffix(value) ==
  /\ value.t = "string"
  /\ \A i \in 1..Len(value.s) : value.s[i] \in Range(LowerCase)

\* A faulty variant of the check of line 35: equality passes.
AffixesTooLong_Strict(prefix, suffix, domainLength) == Len(prefix) + Len(suffix) > domainLength

\* The check of line 35.
AffixesTooLong(prefix, suffix, domainLength) == Len(prefix) + Len(suffix) >= domainLength

readConfig(parsed) ==
  LET domainLength == JsNumber(parsed.length)
      prefix == Coalesce(parsed.prefix, Str(<<>>))
      suffix == Coalesce(parsed.suffix, Str(<<>>))
      interval == Coalesce(parsed.intervalMs, Num(DEFAULT_INTERVAL_MS))
      tld == ToLowerCase(JsString(Coalesce(parsed.topLevelDomain, Str(TldDe))))
  IN  IF domainLength.t # "number" \/ domainLength.n < MIN_LENGTH \/ domainLength.n > MAX_LENGTH
      THEN ConfigError("length")
      ELSE IF ~validateAffix(prefix) THEN ConfigError("prefix")
      ELSE IF ~validateAffix(suffix) THEN ConfigError("suffix")
      ELSE IF AffixesTooLong(prefix.s, suffix.s, domainLength.n) THEN ConfigError("affixes")
      ELSE IF interval.t # "number" \/ interval.n < 0 THEN ConfigError("intervalMs")
      ELSE IF tld \notin SUPPORTED_TLDS THEN ConfigError("topLevelDomain")
      ELSE [ok |-> TRUE,
            domainLength |-> domainLength.n,
            prefix |-> prefix.s,
            suffix |-> suffix.s,
            intervalMs |-> interval.n,
            topLevelDomain |-> tld]

(***************************************************************************)
(* domainGenerator.  A generator object is its arguments and the position  *)
(* it is suspended at: before its first statement ("start"), at the yield  *)
(* of line 74 ("line74"), at the yield of line 80 inside the innermost     *)
(* build frame ("line80"), or finished ("end").  While it is suspended at  *)
(* line 80 the build frames on top of domainGenerator's are described by   *)
(* stack: stack[k] is the index in ALPHABET of the letter the frame at     *)
(* depth k - 1 is delegating with (line 85), so the current of the         *)
(* innermost frame is the string of those letters.                         *)
(***************************************************************************)
NoGenerator == [at |-> "none"]

domainGenerator(length, prefix, suffix) ==
  [at |-> "start", length |-> length, prefix |-> prefix, suffix |-> suffix, stack |-> <<>>]

fillCountOf(g) == g.length - Len(g.prefix) - Len(g.suffix)

\* The string current of the build frame on top of the stack.
CurrentOf(stack) == [k \in 1..Len(stack) |-> ALPHABET[stack[k]]]

\* build(current) is entered with the frames below it in stack: it yields at
\* line 80 when current has fillCount letters, and otherwise delegates to
\* build(current + first letter).
RECURSIVE build(_, _)
build(stack, fillCount) ==
  IF Len(stack) = fillCount
  THEN [done |-> FALSE, stack |-> stack]
  ELSE build(Append(stack, 1), fillCount)

\* A faulty variant of the loop of line 84: the last letter is left out.
RECURSIVE buildReturn_ShortLoop(_, _)
buildReturn_ShortLoop(stack, fillCount) ==
  IF stack = <<>>
  THEN [done |-> TRUE, stack |-> <<>>]
  ELSE LET below == SubSeq(stack, 1, Len(stack) - 1)
           letter == stack[Len(stack)]
       IN  IF letter + 1 < Len(ALPHABET)
           THEN build(Append(below, letter + 1), fillCount)
           ELSE buildReturn_ShortLoop(below, fillCount)

\* The innermost frame returns after its yield: the frame below goes on with
\* its next letter, or returns in turn once 'z' is done (lines 84-86).
RECURSIVE buildReturn(_, _)
buildReturn(stack, fillCount) ==
  IF stack = <<>>
  THEN [done |-> TRUE, stack |-> <<>>]
  ELSE LET below == SubSeq(stack, 1, Len(stack) - 1)
           letter == stack[Len(stack)]
       IN  IF letter < Len(ALPHABET)
           THEN build(Append(below, letter + 1), fillCount)
           ELSE buildReturn(below, fillCount)

Yield(g, at, stack, value) ==
  [gen |-> [g EXCEPT !.at = at, !.stack = stack], done |-> FALSE, threw |-> FALSE, value |-> value]
Finish(g, threw) ==
  [gen |-> [g EXCEPT !.at = "end", !.stack = <<>>], done |-> TRUE, threw |-> threw, value |-> <<>>]

\* Line 90 around what build yields.
YieldBuilt(g, r) ==
  IF r.done THEN Finish(g, FALSE)
  ELSE Yield(g, "line80", r.stack, g.prefix \o CurrentOf(r.stack) \o g.suffix)

\* A variant that asserts 0 < fillCount before it generates.
GeneratorNext_Asserting(g) ==
  LET fillCount == fillCountOf(g)
  IN  CASE g.at = "start" ->
             IF fillCount <= 0 THEN Finish(g, TRUE)
             ELSE YieldBuilt(g, build(<<>>, fillCount))
        [] g.at = "line74" -> Finish(g, FALSE)
        [] g.at = "line80" -> YieldBuilt(g, buildReturn(g.stack, fillCount))
        [] OTHER -> Finish(g, FALSE)

\* generator.next().  With a negative fillCount no current ever has fillCount
\* letters: build delegates without end and the call fails when the call stack
\* is exhausted (threw).
GeneratorNext(g) ==
  LET fillCount == fillCountOf(g)
  IN  CASE g.at = "start" ->
             IF fillCount = 0 THEN Yield(g, "line74", <<>>, g.prefix \o g.suffix)
             ELSE IF fillCount < 0 THEN Finish(g, TRUE)
             ELSE YieldBuilt(g, build(<<>>, fillCount))
        [] g.at = "line74" -> Finish(g, FALSE)
        [] g.at = "line80" -> YieldBuilt(g, buildReturn(g.stack, fillCount))
        [] OTHER -> Finish(g, FALSE)

\* Everything a generator yields from its present position on.
RECURSIVE Drain(_)
Drain(g) ==
  LET r == GeneratorNext(g)
  IN  IF r.done THEN <<>> ELSE <<r.value>> \o Drain(r.gen)

RECURSIVE Power(_, _)
Power(b, e) == IF e <= 0 THEN 1 ELSE b * Power(b, e - 1)

(***************************************************************************)
(* getWhoisProvider and the isAvailable function of each provider.         *)
(***************************************************************************)
StatusWord == <<"s", "t", "a", "t", "u", "s", ":">>
NoMatchWords == <<"n", "o", " ", "m", "a", "t", "c", "h">>
FreeWord == <<"f", "r", "e", "e">>
AvailableWord == <<"a", "v", "a", "i", "l", "a", "b", "l", "e">>

\* A faulty variant: the flag i of the regular expressions is missing.
ReadsAt_CaseSensitive(output, i, w) ==
  /\ i + Len(w) - 1 <= Len(output)
  /\ SubSeq(output, i, i + Len(w) - 1) = w

\* The text starting at position i reads w, letter case ignored.
ReadsAt(output, i, w) ==
  /\ i + Len(w) - 1 <= Len(output)
  /\ ToLowerCase(SubSeq(output, i, i + Len(w) - 1)) = w

\* The first position from i on that is not white space (\s*, greedy).
RECURSIVE SkipSpace(_, _)
SkipSpace(output, i) ==
  IF i <= Len(output) /\ IsSpace(output[i]) THEN SkipSpace(output, i + 1) ELSE i

\* The longest run of word characters from i on (\w+, greedy).
RECURSIVE WordFrom(_, _)
WordFrom(output, i) ==
  IF i <= Len(output) /\ IsWord(output[i])
  THEN <<output[i]>> \o WordFrom(output, i + 1)
  ELSE <<>>

\* /Status:\s*(\w+)/i matches at position i.
StatusMatchesAt(output, i) ==
  /\ ReadsAt(output, i, StatusWord)
  /\ WordFrom(output, SkipSpace(output, i + Len(StatusWord))) # <<>>

\* output.match(/Status:\s*(\w+)/i): the leftmost match and its group 1.
StatusMatch(output) ==
  LET at == {i \in 1..Len(output) : StatusMatchesAt(output, i)}
  IN  IF at = {} THEN [matched |-> FALSE, group |-> <<>>]
      ELSE LET first == CHOOSE i \in at : \A j \in at : i <= j
           IN  [matched |-> TRUE,
                group |-> WordFrom(output, SkipSpace(output, first + Len(StatusWord)))]

\* The isAvailable of the provider named by rule.
isAvailable(rule, output) ==
  CASE rule = "de" ->
         LET statusMatch == StatusMatch(output)
         IN  IF statusMatch.matched THEN ToLowerCase(statusMatch.group) = FreeWord ELSE FALSE
    [] rule = "verisign" ->
         \E i \in 1..Len(output) : ReadsAt(output, i, NoMatchWords)
    [] rule = "eu" ->
         LET statusMatch == StatusMatch(output)
         IN  IF statusMatch.matched THEN ToLowerCase(statusMatch.group) = AvailableWord ELSE FALSE
    [] OTHER -> FALSE

NoProvider == [threw |-> FALSE, host |-> "none", isAvailable |-> "none"]

\* A faulty variant: the eu branch is missing.
getWhoisProvider_NoEu(tld) ==
  IF tld = TldDe THEN [threw |-> FALSE, host |-> "whois.denic.de", isAvailable |-> "de"]
  ELSE IF tld = TldNet \/ tld = TldCom
  THEN [threw |-> FALSE, host |-> "whois.verisign-grs.com", isAvailable |-> "verisign"]
  ELSE [threw |-> TRUE, host |-> "none", isAvailable |-> "none"]

getWhoisProvider(tld) ==
  IF tld = TldDe THEN [threw |-> FALSE, host |-> "whois.denic.de", isAvailable |-> "de"]
  ELSE IF tld = TldNet \/ tld = TldCom
  THEN [threw |-> FALSE, host |-> "whois.verisign-grs.com", isAvailable |-> "verisign"]
  ELSE IF tld = TldEu THEN [threw |-> FALSE, host |-> "whois.eu", isAvailable |-> "eu"]
  ELSE [threw |-> TRUE, host |-> "none", isAvailable |-> "none"]

(***************************************************************************)
(* whoisLookup: one spawned child process, the buffers of its two streams, *)
(* and the promise its handlers settle.  A promise settles once: resolve   *)
(* and reject do nothing to a promise that is no longer pending.           *)
(***************************************************************************)
NoValue == [kind |-> "none"]

whoisLookup(fqdn, provider) ==
  [fqdn |-> fqdn, host |-> provider.host, isAvailable |-> provider.isAvailable,
   stdout |-> <<>>, stderr |-> <<>>, nOut |-> 0, nErr |-> 0,
   errored |-> FALSE, closed |-> FALSE, code |-> 0,
   promise |-> "pending", value |-> NoValue]

\* A faulty variant: the promise can be settled again.
resolve_Overwriting(l, value) == [l EXCEPT !.promise = "resolved", !.value = value]

resolve(l, value) ==
  IF l.promise = "pending" THEN [l EXCEPT !.promise = "resolved", !.value = value] ELSE l
reject(l, err) ==
  IF l.promise = "pending" THEN [l EXCEPT !.promise = "rejected", !.value = err] ELSE l

\* A faulty variant of lines 100-102: the first chunk of output resolves.
OnStdoutData_Resolving(l, chunk) ==
  resolve([l EXCEPT !.stdout = @ \o chunk, !.nOut = @ + 1],
          [kind |-> "result", available |-> FALSE, raw |-> chunk])

\* proc.stdout.on('data') and proc.stderr.on('data')
OnStdoutData(l, chunk) == [l EXCEPT !.stdout = @ \o chunk, !.nOut = @ + 1]
OnStderrData(l, chunk) == [l EXCEPT !.stderr = @ \o chunk, !.nErr = @ + 1]

\* proc.on('error')
OnError(l) == reject([l EXCEPT !.errored = TRUE], [kind |-> "spawn error"])

\* A faulty variant of line 113: any non-zero exit rejects.
CloseRejects_AnyFailure(code, stderr) == code # 0

\* The condition of line 113.
CloseRejects(code, stderr) == code # 0 /\ stderr # <<>>

\* proc.on('close'); the process is over, its buffers are dropped and its
\* exit code is kept.
OnClose(l, code) ==
  LET settled ==
        IF CloseRejects(code, l.stderr)
        THEN reject(l, [kind |-> "Error", message |-> Trim(l.stderr)])
        ELSE resolve(l, [kind |-> "result",
                         available |-> isAvailable(l.isAvailable, l.stdout),
                         raw |-> l.stdout])
  IN  [settled EXCEPT !.closed = TRUE, !.code = code, !.stdout = <<>>, !.stderr = <<>>,
                      !.nOut = 0, !.nErr = 0]

(***************************************************************************)
(* formatDuration and the texts of the summary.                            *)
(***************************************************************************)
\* String.prototype.padStart(targetLength, padString), one pad character.
RECURSIVE padStart(_, _, _)
padStart(str, targetLength, padString) ==
  IF Len(str) >= targetLength THEN str
  ELSE padStart(padString \o str, targetLength, padString)

\* Lines 161-167: the three parts and the template of the result.
RenderDuration(hours, minutes, seconds) ==
  LET parts == <<padStart(NatJsString(hours), 2, <<"0">>),
                 padStart(NatJsString(minutes), 2, <<"0">>),
                 padStart(NatJsString(seconds), 2, <<"0">>)>>
  IN  parts[1] \o <<"h", " ">> \o parts[2] \o <<"m", " ">> \o parts[3] \o <<"s">>

\* A faulty variant of line 158: the minutes are not taken within the hour.
formatDuration_MinutesOfTotal(ms) ==
  LET totalSeconds == ms \div 1000
  IN  RenderDuration(totalSeconds \div 3600, totalSeconds \div 60, totalSeconds % 60)

\* formatDuration(ms) for an integer ms >= 0, where Math.floor(a / b) is the
\* integer quotient.
formatDuration(ms) ==
  LET totalSeconds == ms \div 1000
      hours == totalSeconds \div 3600
      minutes == (totalSeconds % 3600) \div 60
      seconds == totalSeconds % 60
  IN  RenderDuration(hours, minutes, seconds)

\* Array.prototype.join(separator)
RECURSIVE join(_, _)
join(list, separator) ==
  IF list = <<>> THEN <<>>
  ELSE IF Len(list) = 1 THEN list[1]
  ELSE list[1] \o separator \o join(Tail(list), separator)

NoneText == <<"N", "o", "n", "e">>

(***************************************************************************)
(* Inputs: the parsed config.json of a run, the chunks a child process     *)
(* writes, its exit codes, and the arguments of direct calls.              *)
(***************************************************************************)
ParsedLengths == {Undefined, Num(1), Num(2), Num(3), Num(64)}
ParsedPrefixes == {Undefined, Str(<<"g">>), Str(<<"g", "l">>), Str(<<"G">>), Num(7)}
ParsedSuffixes == {Undefined, Str(<<"x">>), Str(<<"x", "1">>)}
ParsedIntervals == {Undefined, Num(0), Num(-1), Str(<<"5">>)}
ParsedTlds == {Undefined, Str(TldNet), Str(TldCom), Str(<<"E", "U">>), Str(<<"o", "r", "g">>)}

\* The number of candidates the run of a configuration generates.
CandidatesOf(c) ==
  IF c.ok THEN Power(Len(ALPHABET), c.domainLength - Len(c.prefix) - Len(c.suffix)) ELSE 0

ParsedConfigs ==
  {p \in [length : ParsedLengths, prefix : ParsedPrefixes, suffix : ParsedSuffixes,
          intervalMs : ParsedIntervals, topLevelDomain : ParsedTlds] :
     CandidatesOf(readConfig(p)) <= MaxCandidates}

StdoutChunks == {<<"S", "t", "a", "t", "u", "s", ":", " ", "f", "r", "e", "e">>,
                 <<"S", "t", "a", "t", "u", "s", ":", " ", "a", "v", "a", "i", "l", "a", "b", "l", "e">>,
                 <<"N", "o", " ", "m", "a", "t", "c", "h">>}
StderrChunks == {<<"f", "a", "i", "l", "\n">>}
\* Exit codes of a process that ran; a process that failed to spawn closes
\* with the negated errno.
ExitCodes == {0, 1}
SpawnFailureCodes == {-2}

GenAffixes == {<<>>, <<"g">>, <<"g", "l">>}
GenCalls ==
  [fn : {"domainGenerator"}, length : 0..MaxGenLength, prefix : GenAffixes, suffix : GenAffixes]
ProviderCalls ==
  [fn : {"getWhoisProvider"},
   tld : SUPPORTED_TLDS \cup {<<"o", "r", "g">>, <<"D", "E">>, <<>>}]

\* Fragments of whois output, and the outputs made of them.
TextParts ==
  {<<"S", "t", "a", "t", "u", "s", ":", " ", "f", "r", "e", "e">>,
   <<"S", "T", "A", "T", "U", "S", ":", "F", "r", "e", "e">>,
   <<"S", "t", "a", "t", "u", "s", ":", " ", "c", "o", "n", "n", "e", "c", "t", "\n">>,
   <<"s", "t", "a", "t", "u", "s", ":", "\t", "A", "V", "A", "I", "L", "A", "B", "L", "E">>,
   <<"S", "t", "a", "t", "u", "s", ":">>,
   <<"f", "r", "e", "e">>,
   <<"a", "v", "a", "i", "l", "a", "b", "l", "e">>,
   <<" ">>, <<"\n">>, <<"x">>, <<"-">>,
   <<"N", "o", " ", "m", "a", "t", "c", "h">>,
   <<"N", "O", " ", "M", "A", "T", "C", "H">>,
   <<"n", "o", " ", " ", "m", "a", "t", "c", "h">>}
RECURSIVE TextsOf(_)
TextsOf(n) ==
  IF n = 0 THEN {<<>>}
  ELSE TextsOf(n - 1) \cup {t \o p : t \in TextsOf(n - 1), p \in TextParts}
WhoisTexts == TextsOf(MaxTextParts)
AvailabilityCalls == [fn : {"isAvailable"}, tld : SUPPORTED_TLDS, output : WhoisTexts]
LookupCalls ==
  [fn : {"whoisLookup"}, fqdn : {<<"g", "a", ".", "d", "e">>}, tld : {TldDe, TldCom}]
\* Durations around the places where a field of the rendering rolls over.
DurationSamples ==
  {((h * 3600) + (m * 60) + sec) * 1000 + r :
     h \in {0, 1, 9, 10, 99, 100}, m \in {0, 9, 59}, sec \in {0, 10, 59}, r \in {0, 999}}
DurationCalls == [fn : {"formatDuration"}, ms : DurationSamples]
NoCall == [fn |-> "none"]

(***************************************************************************)
(* State.                                                                  *)
(***************************************************************************)
VARIABLES
  parsed,            \* the parsed config.json of the run
  unit,              \* the direct call under test, NoCall in a run
  pc,                \* where run(), or the direct call, stands
  exitCode,          \* the argument of process.exit, 0 while none was called
  config,            \* run: config
  generator,         \* run: generator
  whoisProvider,     \* run: whoisProvider
  availableDomains,  \* run: availableDomains
  checked,           \* run: checked
  taken,             \* run: taken
  domain,            \* run: the loop variable domain
  lookups,           \* every whoisLookup call so far, in call order
  delayBefore,       \* history: the delay awaited right before each call
  outcomes,          \* history: how run() took the result of each call
  elapsed,           \* history: the total of the delays slept
  summary,           \* history: the summaries printed
  yielded,           \* history: the labels a directly called generator yielded
  returned           \* the value a direct call returned

vars == <<parsed, unit, pc, exitCode, config, generator, whoisProvider,
          availableDomains, checked, taken, domain, lookups, delayBefore,
          outcomes, elapsed, summary, yielded, returned>>

NoConfig == [ok |-> FALSE, error |-> "none"]
NoParsed == [length |-> Undefined, prefix |-> Undefined, suffix |-> Undefined,
             intervalMs |-> Undefined, topLevelDomain |-> Undefined]

Idle ==
  /\ exitCode = 0
  /\ config = NoConfig
  /\ generator = NoGenerator
  /\ whoisProvider = NoProvider
  /\ availableDomains = <<>>
  /\ checked = 0
  /\ taken = 0
  /\ domain = <<>>
  /\ lookups = <<>>
  /\ delayBefore = <<>>
  /\ outcomes = <<>>
  /\ elapsed = 0
  /\ summary = <<>>
  /\ yielded = <<>>
  /\ returned = NoValue

\* The process starts run() on some config.json.
RunInit ==
  /\ parsed \in ParsedConfigs
  /\ unit = NoCall
  /\ pc = "start"
  /\ Idle

\* A direct call of one function of the module.
CallInit ==
  /\ parsed = NoParsed
  /\ unit \in GenCalls \cup ProviderCalls \cup AvailabilityCalls \cup LookupCalls
               \cup DurationCalls
  /\ pc = "call"
  /\ Idle

Init == RunInit \/ CallInit

(***************************************************************************)
(* run()                                                                   *)
(***************************************************************************)
\* process.exit(1), from the catch of line 174 or of line 227.
Exit1 ==
  /\ pc' = "exited"
  /\ exitCode' = 1

\* Lines 171-177.
Run_ReadConfig ==
  /\ pc = "start"
  /\ LET c == readConfig(parsed)
     IN  IF c.ok
         THEN /\ config' = c
              /\ pc' = "configured"
              /\ UNCHANGED exitCode
         ELSE /\ Exit1
              /\ UNCHANGED config
  /\ UNCHANGED <<returned, parsed, unit, generator, whoisProvider, availableDomains, checked, taken,
                 domain, lookups, delayBefore, outcomes, elapsed, summary, yielded>>

\* Lines 179-188.
Run_Setup ==
  /\ pc = "configured"
  /\ generator' = domainGenerator(config.domainLength, config.prefix, config.suffix)
  /\ availableDomains' = <<>>
  /\ checked' = 0
  /\ taken' = 0
  /\ LET provider == getWhoisProvider(config.topLevelDomain)
     IN  IF provider.threw
         THEN /\ Exit1
              /\ UNCHANGED whoisProvider
         ELSE /\ whoisProvider' = provider
              /\ pc' = "loop"
              /\ UNCHANGED exitCode
  /\ UNCHANGED <<returned, parsed, unit, config, domain, lookups, delayBefore, outcomes, elapsed,
                 summary, yielded>>

\* A faulty variant of line 191: the delay starts after the second success.
NeedsDelay_AfterTwo(n) == n > 1

\* A faulty variant of line 191: the first lookup is delayed as well.
NeedsDelay_Always(n) == TRUE

\* Line 191.
NeedsDelay(n) == n > 0

\* A faulty variant of line 154: the timer is set to twice the interval.
delay_Doubled(ms) == 2 * ms

\* Line 154: the time after which the promise of delay(ms) resolves.
delay(ms) == ms

\* A faulty variant of line 195: the dot between label and tld is missing.
Fqdn_NoDot(label, tld) == label \o tld

\* Line 195.
Fqdn(label, tld) == label \o <<".">> \o tld

NoDelay == [delayed |-> FALSE, ms |-> 0]
Delay(ms) == [delayed |-> TRUE, ms |-> ms]

\* Lines 195-198 up to the await: the lookup is spawned.
Dispatch(label, before) ==
  /\ lookups' = Append(lookups, whoisLookup(Fqdn(label, config.topLevelDomain), whoisProvider))
  /\ delayBefore' = Append(delayBefore, before)
  /\ pc' = "lookup"

\* Lines 215-224.
Summary ==
  [checked |-> checked, taken |-> taken, availableCount |-> Len(availableDomains),
   availableList |-> availableDomains, none |-> Len(availableDomains) = 0,
   durationMs |-> elapsed,
   availableText |-> IF Len(availableDomains) # 0
                     THEN join(availableDomains, <<",", " ">>)
                     ELSE NoneText,
   runtime |-> formatDuration(elapsed)]

\* The head of the loop, line 190: generator.next(), then the summary when
\* the generator is done, the delay of line 192, or the lookup at once.
Run_LoopNext ==
  /\ pc = "loop"
  /\ LET r == GeneratorNext(generator)
     IN  /\ generator' = r.gen
         /\ IF r.threw
            THEN /\ Exit1
                 /\ UNCHANGED <<domain, lookups, delayBefore, summary>>
            ELSE IF r.done
            THEN /\ summary' = Append(summary, Summary)
                 /\ pc' = "done"
                 /\ UNCHANGED <<exitCode, domain, lookups, delayBefore>>
            ELSE /\ domain' = r.value
                 /\ IF NeedsDelay(checked)
                    THEN /\ pc' = "delay"
                         /\ UNCHANGED <<lookups, delayBefore>>
                    ELSE Dispatch(r.value, NoDelay)
                 /\ UNCHANGED <<exitCode, summary>>
  /\ UNCHANGED <<returned, parsed, unit, config, whoisProvider, availableDomains, checked, taken,
                 outcomes, elapsed, yielded>>

\* The timer of line 192 fires and run() goes on to the lookup.
Run_DelayElapsed ==
  /\ pc = "delay"
  /\ elapsed' = elapsed + delay(config.intervalMs)
  /\ Dispatch(domain, Delay(delay(config.intervalMs)))
  /\ UNCHANGED <<returned, parsed, unit, exitCode, config, generator, whoisProvider, availableDomains,
                 checked, taken, domain, outcomes, summary, yielded>>

\* A faulty variant: the lookup is not awaited.
Settled_NoAwait(l) == TRUE

\* The await of line 198 is over.
Settled(l) == l.promise # "pending"

\* A faulty variant: a rejected lookup counts as checked and taken.
CatchLookupError_Counted(acc) == [acc EXCEPT !.checked = @ + 1, !.taken = @ + 1]

\* Lines 199-202: the accumulators after a rejected lookup.
CatchLookupError(acc) == acc

\* A faulty variant: a taken domain is not counted.
RecordResult_TakenLost(acc, fqdn, result) ==
  IF result.kind = "result" /\ result.available
  THEN [acc EXCEPT !.availableDomains = Append(@, fqdn)]
  ELSE acc

\* A faulty variant: an available domain is put in front of the list.
RecordResult_Unshift(acc, fqdn, result) ==
  IF result.kind = "result" /\ result.available
  THEN [acc EXCEPT !.availableDomains = <<fqdn>> \o @]
  ELSE [acc EXCEPT !.taken = @ + 1]

\* result.available: undefined, hence falsy, on a value without that field.
Available(result) == result.kind = "result" /\ result.available

\* Line 204: a resolved lookup is counted before it is classified.
CountChecked(acc) == [acc EXCEPT !.checked = @ + 1]

\* A faulty variant: an available domain is counted as taken as well.
RecordResult_AlsoTaken(acc, fqdn, result) ==
  IF result.kind = "result" /\ result.available
  THEN [acc EXCEPT !.taken = @ + 1, !.availableDomains = Append(@, fqdn)]
  ELSE [acc EXCEPT !.taken = @ + 1]

\* Lines 206-212: the accumulators after the classification of the result.
RecordResult(acc, fqdn, result) ==
  IF Available(result)
  THEN [acc EXCEPT !.availableDomains = Append(@, fqdn)]
  ELSE [acc EXCEPT !.taken = @ + 1]

OutcomeOf(l) ==
  IF l.promise = "rejected" THEN "failed"
  ELSE IF Available(l.value) THEN "available"
  ELSE "taken"

\* run() resumes after the await of line 198.  A rejected lookup takes the
\* catch branch back to the loop head; a resolved one is counted (line 204)
\* and its value stays in result for the classification.
Run_LookupSettled ==
  /\ pc = "lookup"
  /\ LET k == Len(lookups)
         l == lookups[k]
         acc == [checked |-> checked, taken |-> taken, availableDomains |-> availableDomains]
         next == IF l.promise = "rejected" THEN CatchLookupError(acc) ELSE CountChecked(acc)
     IN  /\ Settled(l)
         /\ checked' = next.checked
         /\ taken' = next.taken
         /\ availableDomains' = next.availableDomains
         /\ IF l.promise = "rejected"
            THEN /\ outcomes' = Append(outcomes, OutcomeOf(l))
                 /\ lookups' = [lookups EXCEPT ![k].value = NoValue]
                 /\ pc' = "loop"
            ELSE /\ pc' = "record"
                 /\ UNCHANGED <<outcomes, lookups>>
  /\ UNCHANGED <<returned, parsed, unit, exitCode, config, generator, whoisProvider, domain,
                 delayBefore, elapsed, summary, yielded>>

\* Lines 206-212: the result is classified; the settled value is dropped
\* once it is consumed.
Run_Record ==
  /\ pc = "record"
  /\ LET k == Len(lookups)
         l == lookups[k]
         acc == [checked |-> checked, taken |-> taken, availableDomains |-> availableDomains]
         next == RecordResult(acc, Fqdn(domain, config.topLevelDomain), l.value)
     IN  /\ checked' = next.checked
         /\ taken' = next.taken
         /\ availableDomains' = next.availableDomains
         /\ outcomes' = Append(outcomes, OutcomeOf(l))
         /\ lookups' = [lookups EXCEPT ![k].value = NoValue]
  /\ pc' = "loop"
  /\ UNCHANGED <<returned, parsed, unit, exitCode, config, generator, whoisProvider, domain,
                 delayBefore, elapsed, summary, yielded>>

(***************************************************************************)
(* The events of the child processes.                                      *)
(***************************************************************************)
ProcUnchanged ==
  UNCHANGED <<returned, parsed, unit, pc, exitCode, config, generator, whoisProvider,
              availableDomains, checked, taken, domain, delayBefore, outcomes, elapsed,
              summary, yielded>>

Running(l) == ~l.closed /\ ~l.errored

Proc_StdoutData ==
  \E k \in 1..Len(lookups), chunk \in StdoutChunks :
    /\ Running(lookups[k])
    /\ lookups[k].nOut < MaxChunks
    /\ lookups' = [lookups EXCEPT ![k] = OnStdoutData(@, chunk)]
    /\ ProcUnchanged

Proc_StderrData ==
  \E k \in 1..Len(lookups), chunk \in StderrChunks :
    /\ Running(lookups[k])
    /\ lookups[k].nErr < MaxChunks
    /\ lookups' = [lookups EXCEPT ![k] = OnStderrData(@, chunk)]
    /\ ProcUnchanged

\* The program could not be spawned.
Proc_Error ==
  \E k \in 1..Len(lookups) :
    /\ Running(lookups[k])
    /\ lookups[k].nOut = 0
    /\ lookups[k].nErr = 0
    /\ lookups' = [lookups EXCEPT ![k] = OnError(@)]
    /\ ProcUnchanged

Proc_Close ==
  \E k \in 1..Len(lookups) :
    /\ ~lookups[k].closed
    /\ \E code \in (IF lookups[k].errored THEN SpawnFailureCodes ELSE ExitCodes) :
         lookups' = [lookups EXCEPT ![k] = OnClose(@, code)]
    /\ ProcUnchanged

(***************************************************************************)
(* Direct calls.                                                           *)
(***************************************************************************)
CallUnchanged ==
  UNCHANGED <<returned, parsed, unit, exitCode, config, availableDomains, checked, taken, domain,
              lookups, delayBefore, outcomes, elapsed, summary>>

Call_domainGenerator ==
  /\ pc = "call"
  /\ unit.fn = "domainGenerator"
  /\ generator' = domainGenerator(unit.length, unit.prefix, unit.suffix)
  /\ pc' = "iterating"
  /\ UNCHANGED <<whoisProvider, yielded>>
  /\ CallUnchanged

Call_next ==
  /\ pc = "iterating"
  /\ LET r == GeneratorNext(generator)
     IN  /\ generator' = r.gen
         /\ yielded' = IF r.done THEN yielded ELSE Append(yielded, r.value)
         /\ pc' = IF r.threw THEN "threw" ELSE IF r.done THEN "returned" ELSE "iterating"
  /\ UNCHANGED whoisProvider
  /\ CallUnchanged

Call_getWhoisProvider ==
  /\ pc = "call"
  /\ unit.fn = "getWhoisProvider"
  /\ whoisProvider' = getWhoisProvider(unit.tld)
  /\ pc' = IF whoisProvider'.threw THEN "threw" ELSE "returned"
  /\ UNCHANGED <<generator, yielded>>
  /\ CallUnchanged

\* provider.isAvailable(output) of the provider of a supported tld.
Call_isAvailable ==
  /\ pc = "call"
  /\ unit.fn = "isAvailable"
  /\ whoisProvider' = getWhoisProvider(unit.tld)
  /\ returned' = [kind |-> "boolean",
                  b |-> isAvailable(whoisProvider'.isAvailable, unit.output)]
  /\ pc' = "returned"
  /\ UNCHANGED <<parsed, unit, exitCode, config, generator, availableDomains, checked,
                 taken, domain, lookups, delayBefore, outcomes, elapsed, summary, yielded>>

\* whoisLookup(fqdn, provider) called on its own, with a child process that
\* may emit its events in any order.
Call_whoisLookup ==
  /\ pc = "call"
  /\ unit.fn = "whoisLookup"
  /\ whoisProvider' = getWhoisProvider(unit.tld)
  /\ lookups' = <<whoisLookup(unit.fqdn, whoisProvider')>>
  /\ pc' = "awaiting"
  /\ UNCHANGED <<returned, parsed, unit, exitCode, config, generator, availableDomains,
                 checked, taken, domain, delayBefore, outcomes, elapsed, summary, yielded>>

\* The caller's await of the promise is over.
Call_whoisLookupSettled ==
  /\ pc = "awaiting"
  /\ Settled(lookups[1])
  /\ returned' = [kind |-> lookups[1].promise, value |-> lookups[1].value]
  /\ lookups' = [lookups EXCEPT ![1].value = NoValue]
  /\ pc' = IF lookups[1].promise = "rejected" THEN "threw" ELSE "returned"
  /\ UNCHANGED <<parsed, unit, exitCode, config, generator, whoisProvider, availableDomains,
                 checked, taken, domain, delayBefore, outcomes, elapsed, summary, yielded>>

\* The child of a direct call emits 'error' after its 'close'.
Proc_ErrorAfterClose ==
  /\ unit.fn = "whoisLookup"
  /\ \E k \in 1..Len(lookups) :
       /\ lookups[k].closed
       /\ ~lookups[k].errored
       /\ lookups' = [lookups EXCEPT ![k] = OnError(@)]
  /\ ProcUnchanged

Call_formatDuration ==
  /\ pc = "call"
  /\ unit.fn = "formatDuration"
  /\ returned' = [kind |-> "string", s |-> formatDuration(unit.ms)]
  /\ pc' = "returned"
  /\ UNCHANGED <<parsed, unit, exitCode, config, generator, whoisProvider, availableDomains,
                 checked, taken, domain, lookups, delayBefore, outcomes, elapsed, summary,
                 yielded>>

Next ==
  \/ Run_ReadConfig
  \/ Run_Setup
  \/ Run_LoopNext
  \/ Run_DelayElapsed
  \/ Run_LookupSettled
  \/ Run_Record
  \/ Proc_StdoutData
  \/ Proc_StderrData
  \/ Proc_Error
  \/ Proc_Close
  \/ Call_domainGenerator
  \/ Call_next
  \/ Call_getWhoisProvider
  \/ Call_isAvailable
  \/ Call_whoisLookup
  \/ Call_whoisLookupSettled
  \/ Proc_ErrorAfterClose
  \/ Call_formatDuration

Spec == Init /\ [][Next]_vars

\* The event loop runs every continuation of run() that is ready.
Fairness ==
  /\ WF_vars(Run_ReadConfig)
  /\ WF_vars(Run_Setup)
  /\ WF_vars(Run_LoopNext)
  /\ WF_vars(Run_DelayElapsed)
  /\ WF_vars(Run_LookupSettled)
  /\ WF_vars(Run_Record)
FairSpec == Spec /\ Fairness

(***************************************************************************)
(* Properties.                                                             *)
(***************************************************************************)
InRun == unit.fn = "none"

\* The candidates of the run's configuration, in the generator's order.
RunLabels == Drain(domainGenerator(config.domainLength, config.prefix, config.suffix))

\* The number of calls so far that run() took with the given outcome.
CountOutcome(o) == Cardinality({k \in 1..Len(outcomes) : outcomes[k] = o})

\* The elements of s at the positions that satisfy keep, in order.
RECURSIVE Restrict(_, _, _)
Restrict(s, keep(_), k) ==
  IF k > Len(s) THEN <<>>
  ELSE (IF keep(k) THEN <<s[k]>> ELSE <<>>) \o Restrict(s, keep, k + 1)

\* C1: in run(), no delay precedes the lookup of the first candidate, and the
\* lookup of every later candidate is preceded by a delay of intervalMs,
\* whatever the outcome of the earlier lookups.
C1_DelayBeforeEveryLaterLookup ==
  \A k \in 1..Len(delayBefore) :
    IF k = 1 THEN ~delayBefore[k].delayed
    ELSE delayBefore[k] = Delay(config.intervalMs)

\* C2: when the lookup of candidate k is rejected, run() leaves checked, taken
\* and the available list as they are, does not exit, and goes on with
\* candidate k+1 until the generator is exhausted; the failed candidate is in
\* no count and no list of the summary.
C2_FailedStep ==
  (pc = "lookup" /\ pc' # "lookup" /\ lookups[Len(lookups)].promise = "rejected")
    => /\ checked' = checked
       /\ taken' = taken
       /\ availableDomains' = availableDomains
       /\ pc' = "loop"
       /\ exitCode' = 0
C2_FailedExcluded ==
  InRun =>
    /\ \A k \in 1..Len(outcomes) :
         outcomes[k] = "failed" =>
           /\ lookups[k].fqdn \notin Range(availableDomains)
           /\ exitCode = 0
    /\ pc = "done" => Len(outcomes) = Len(RunLabels)
    /\ \A i \in 1..Len(summary) :
         /\ Len(outcomes) = Len(RunLabels)
         /\ summary[i].checked = Len(outcomes) - CountOutcome("failed")
         /\ summary[i].taken = CountOutcome("taken")
         /\ summary[i].availableCount = CountOutcome("available")
         /\ \A k \in 1..Len(outcomes) :
              outcomes[k] = "failed" => lookups[k].fqdn \notin Range(summary[i].availableList)
\* C2: both parts, the step that takes a rejected lookup and what the
\* accumulators and the summary hold of the failed candidates.
C2_FailedLookupIsSkipped == [][C2_FailedStep]_vars /\ []C2_FailedExcluded
C2_Witness ==
  /\ pc = "done"
  /\ Len(outcomes) = 4
  /\ outcomes[2] = "failed"
  /\ outcomes[3] = "available"
  /\ CountOutcome("taken") = 1

\* C3: the summary of every completed run has checked = taken + the number
\* of entries of the available list.
C3_SummaryAddsUp ==
  /\ pc = "done" => Len(summary) = 1 /\ checked = taken + Len(availableDomains)
  /\ \A i \in 1..Len(summary) :
       /\ summary[i].checked = summary[i].taken + Len(summary[i].availableList)
       /\ summary[i].availableCount = Len(summary[i].availableList)
C3_Witness ==
  /\ pc = "done"
  /\ CountOutcome("failed") > 0
  /\ CountOutcome("taken") > 0
  /\ CountOutcome("available") > 0

\* C4: the lookups are spawned in the generator's order, each for the label
\* followed by "." and the top-level domain, and the available list is at any
\* time that sequence restricted to the candidates taken as available.
IsAvailableOutcome(k) == k <= Len(outcomes) /\ outcomes[k] = "available"
C4_GeneratorOrder ==
  (InRun /\ config.ok) =>
    /\ Len(lookups) <= Len(RunLabels)
    /\ \A k \in 1..Len(lookups) :
         lookups[k].fqdn = RunLabels[k] \o <<".">> \o config.topLevelDomain
    /\ availableDomains =
         Restrict([k \in 1..Len(lookups) |-> lookups[k].fqdn], IsAvailableOutcome, 1)
    /\ pc = "done" => Len(lookups) = Len(RunLabels)
C4_Witness ==
  /\ pc = "done"
  /\ Len(outcomes) = 4
  /\ outcomes[1] = "available"
  /\ outcomes[2] = "taken"
  /\ outcomes[3] = "failed"
  /\ outcomes[4] = "available"

\* C5: at most one lookup is in flight: when run() spawns a lookup every
\* earlier one has settled and its process is over or never started.
C5_OneLookupInFlight ==
  /\ Cardinality({k \in 1..Len(lookups) : lookups[k].promise = "pending"}) <= 1
  /\ Cardinality({k \in 1..Len(lookups) : Running(lookups[k])}) <= 1
  /\ \A k \in 1..(Len(lookups) - 1) :
       lookups[k].promise # "pending" /\ ~Running(lookups[k])
C5_Witness ==
  /\ Len(lookups) = 3
  /\ lookups[3].promise = "pending"
  /\ lookups[3].nOut = 1
  /\ lookups[1].errored /\ ~lookups[1].closed

\* The direct call under test is domainGenerator, with this fillCount.
GenCall == unit.fn = "domainGenerator"
CallFill == unit.length - Len(unit.prefix) - Len(unit.suffix)

\* The middle of a yielded label, between the prefix and the suffix.
MiddleOf(label) == SubSeq(label, Len(unit.prefix) + 1, Len(label) - Len(unit.suffix))

\* a comes before b in the lexicographic order of the alphabet; a and b have
\* the same length.
RECURSIVE LexLess(_, _)
LexLess(a, b) ==
  IF a = <<>> THEN FALSE
  ELSE IF Head(a) = Head(b) THEN LexLess(Tail(a), Tail(b))
  ELSE IndexOf(Head(a), ALPHABET) < IndexOf(Head(b), ALPHABET)

\* C6: with fillCount >= 0, domainGenerator yields exactly
\* Len(ALPHABET)^fillCount labels, each prefix + middle + suffix with a middle
\* of fillCount letters of the alphabet, in strictly increasing lexicographic
\* order of the middle (so without duplicates), from all-first-letter to
\* all-last-letter; with fillCount = 0 it yields the one label prefix + suffix.
C6_GeneratorSequence ==
  (GenCall /\ CallFill >= 0) =>
    /\ pc # "threw"
    /\ \A k \in 1..Len(yielded) :
         /\ Len(yielded[k]) = unit.length
         /\ SubSeq(yielded[k], 1, Len(unit.prefix)) = unit.prefix
         /\ SubSeq(yielded[k], unit.length - Len(unit.suffix) + 1, unit.length) = unit.suffix
         /\ Len(MiddleOf(yielded[k])) = CallFill
         /\ Range(MiddleOf(yielded[k])) \subseteq Range(ALPHABET)
         /\ k > 1 => LexLess(MiddleOf(yielded[k - 1]), MiddleOf(yielded[k]))
    /\ yielded # <<>> => MiddleOf(yielded[1]) = [i \in 1..CallFill |-> ALPHABET[1]]
    /\ pc = "returned" =>
         /\ Len(yielded) = Power(Len(ALPHABET), CallFill)
         /\ Cardinality(Range(yielded)) = Len(yielded)
         /\ MiddleOf(yielded[Len(yielded)]) = [i \in 1..CallFill |-> ALPHABET[Len(ALPHABET)]]
         /\ CallFill = 0 => yielded = <<unit.prefix \o unit.suffix>>
C6_Witness ==
  /\ GenCall
  /\ pc = "returned"
  /\ CallFill = 2
  /\ unit.prefix = <<"g", "l">>
  /\ Len(yielded) = Len(ALPHABET) * Len(ALPHABET)

\* The affixes and the length of the run's config.json, when they have them.
ParsedPrefix == Coalesce(parsed.prefix, Str(<<>>))
ParsedSuffix == Coalesce(parsed.suffix, Str(<<>>))
AffixesFillLength ==
  /\ InRun
  /\ parsed.length.t = "number"
  /\ ParsedPrefix.t = "string"
  /\ ParsedSuffix.t = "string"
  /\ Len(ParsedPrefix.s) + Len(ParsedSuffix.s) >= parsed.length.n

\* C7: a configuration with len(prefix) + len(suffix) >= domainLength ends the
\* run with process.exit(1) before the generator is called, before any lookup
\* is spawned and with no summary.
C7_AffixesTooLongIsFatal ==
  AffixesFillLength =>
    /\ pc \in {"start", "exited"}
    /\ pc = "exited" => exitCode = 1
    /\ ~config.ok
    /\ generator = NoGenerator
    /\ lookups = <<>>
    /\ summary = <<>>
C7_Witness ==
  /\ AffixesFillLength
  /\ parsed.length = Num(2)
  /\ parsed.prefix = Str(<<"g">>)
  /\ parsed.suffix = Str(<<"x">>)
  /\ parsed.intervalMs = Undefined
  /\ parsed.topLevelDomain = Undefined
  /\ pc = "exited"

\* C8 as claimed: domainGenerator called with len(prefix) + len(suffix) >=
\* length fails with an error and yields no label.
C8_GeneratorFailsFast ==
  (GenCall /\ CallFill <= 0) =>
    /\ yielded = <<>>
    /\ pc \in {"call", "iterating", "threw"}

\* C8, amended: domainGenerator does not check its arguments.  Called with
\* len(prefix) + len(suffix) = length it yields the one label prefix + suffix
\* and returns; called with len(prefix) + len(suffix) > length it yields no
\* label and does not return, build delegating until the call stack is
\* exhausted.  In run() the generator exists only after readConfig accepted
\* the configuration, which then has len(prefix) + len(suffix) < domainLength.
C8_OnlyReadConfigAsserts ==
  /\ (GenCall /\ CallFill = 0) =>
       /\ pc # "threw"
       /\ Len(yielded) <= 1
       /\ generator.at \in {"line74", "end"} => yielded = <<unit.prefix \o unit.suffix>>
       /\ generator.at = "end" => pc = "returned"
  /\ (GenCall /\ CallFill < 0) =>
       /\ yielded = <<>>
       /\ pc # "returned"
       /\ generator.at = "end" => pc = "threw"
  /\ (InRun /\ generator # NoGenerator) =>
       /\ config.ok
       /\ Len(config.prefix) + Len(config.suffix) < config.domainLength
       /\ exitCode = 0
C8_Witness ==
  /\ GenCall
  /\ CallFill = 0
  /\ unit.prefix = <<"g", "l">>
  /\ unit.suffix = <<"g">>
  /\ pc = "returned"
  /\ yielded = <<<<"g", "l", "g">>>>

\* The top-level domain readConfig derives from config.json.
ParsedTld == ToLowerCase(JsString(Coalesce(parsed.topLevelDomain, Str(TldDe))))
FourTlds == {<<"d", "e">>, <<"n", "e", "t">>, <<"c", "o", "m">>, <<"e", "u">>}

\* C9: getWhoisProvider returns a provider for exactly de, net, com and eu
\* and throws for any other identifier; a run whose top-level domain is none
\* of the four ends with process.exit(1) before any lookup is spawned.
C9_ProviderSelection ==
  /\ (unit.fn = "getWhoisProvider" /\ pc # "call") =>
       /\ pc = "returned" <=> unit.tld \in FourTlds
       /\ pc = "threw" <=> unit.tld \notin FourTlds
       /\ whoisProvider.threw <=> pc = "threw"
       /\ pc = "returned" => whoisProvider.host # "none" /\ whoisProvider.isAvailable # "none"
  /\ (InRun /\ ParsedTld \notin FourTlds) =>
       /\ pc \in {"start", "exited"}
       /\ pc = "exited" => exitCode = 1
       /\ lookups = <<>>
       /\ summary = <<>>
  /\ (InRun /\ pc \in {"loop", "delay", "lookup", "record", "done"}) =>
       /\ config.topLevelDomain \in FourTlds
       /\ whoisProvider = getWhoisProvider(config.topLevelDomain)
       /\ ~whoisProvider.threw
C9_Witness ==
  /\ unit.fn = "getWhoisProvider"
  /\ unit.tld = <<"o", "r", "g">>
  /\ pc = "threw"
  /\ whoisProvider.threw

\* C10: a lookup is rejected exactly when the program could not be spawned
\* or it closed with a non-zero code and a non-empty standard error, the
\* error then carrying that text; in every other case it resolves to
\* available = isAvailable(standard output) and raw = standard output.
C10_SettleStep ==
  \A k \in 1..Len(lookups) :
    (k <= Len(lookups') /\ lookups[k].promise = "pending" /\ lookups'[k].promise # "pending") =>
      LET before == lookups[k]
          after == lookups'[k]
      IN  IF after.errored
          THEN /\ ~after.closed
               /\ after.promise = "rejected"
          ELSE /\ after.closed
               /\ IF after.code # 0 /\ before.stderr # <<>>
                  THEN /\ after.promise = "rejected"
                       /\ after.value = [kind |-> "Error", message |-> Trim(before.stderr)]
                  ELSE /\ after.promise = "resolved"
                       /\ after.value =
                            [kind |-> "result",
                             available |-> isAvailable(whoisProvider.isAvailable, before.stdout),
                             raw |-> before.stdout]
C10_Settlement ==
  \A k \in 1..Len(lookups) :
    /\ (lookups[k].closed \/ lookups[k].errored) <=> lookups[k].promise # "pending"
    /\ (InRun /\ lookups[k].errored /\ lookups[k].closed) => lookups[k].promise = "rejected"
\* C10: both parts, the step that settles a lookup and which lookups are
\* settled.
C10_LookupOutcome == [][C10_SettleStep]_vars /\ []C10_Settlement
C10_Witness ==
  \E k \in 1..Len(lookups) :
    /\ lookups[k].closed
    /\ ~lookups[k].errored
    /\ lookups[k].code = 1
    /\ lookups[k].promise = "resolved"
    /\ lookups[k].value.kind = "result"
    /\ lookups[k].value.available
    /\ lookups[k].value.raw # <<>>

\* The number of lookups so far that a delay preceded.
DelaysSlept == Cardinality({k \in 1..Len(delayBefore) : delayBefore[k].delayed})

\* C11: with N candidates classified so far and intervalMs = d, at least
\* N - 1 delays of d were slept, so at least (N - 1) * d of time has passed,
\* wherever the failed lookups fall; the duration of the summary included.
C11_RateLimit ==
  (InRun /\ config.ok) =>
    /\ DelaysSlept >= checked - 1
    /\ \A k \in 1..Len(delayBefore) :
         delayBefore[k].delayed => delayBefore[k].ms = config.intervalMs
    /\ elapsed >= (checked - 1) * config.intervalMs
    /\ \A i \in 1..Len(summary) :
         summary[i].durationMs >= (summary[i].checked - 1) * config.intervalMs
C11_Witness ==
  /\ pc = "done"
  /\ config.intervalMs = 500
  /\ Len(outcomes) = 4
  /\ outcomes[1] = "failed"
  /\ outcomes[3] = "failed"
  /\ checked = 2
  /\ elapsed = 1000

\* C15: between the end of lookup k and the start of lookup k + 1 at most one
\* delay is slept, and it lasts intervalMs, also when lookup k failed: the
\* time slept in the whole run is one interval per delayed lookup.
C15_AtMostOneDelay ==
  (InRun /\ config.ok) =>
    /\ \A k \in 1..Len(delayBefore) :
         delayBefore[k] \in {NoDelay, Delay(config.intervalMs)}
    /\ DelaysSlept <= Len(lookups)
    /\ elapsed = DelaysSlept * config.intervalMs
C15_Witness ==
  /\ InRun
  /\ Len(outcomes) >= 2
  /\ Len(delayBefore) >= 3
  /\ outcomes[1] # "failed"
  /\ outcomes[2] = "failed"
  /\ delayBefore[2] = Delay(500)
  /\ delayBefore[3] = Delay(500)
  /\ elapsed = 1000

DispatchesOf(fqdn) == {k \in 1..Len(lookups) : lookups[k].fqdn = fqdn}

\* The whois server the run queries for a top-level domain.
HostOf(tld) ==
  CASE tld = TldDe -> "whois.denic.de"
    [] tld = TldEu -> "whois.eu"
    [] tld \in {TldNet, TldCom} -> "whois.verisign-grs.com"
    [] OTHER -> "none"

\* C18: every label the generator has yielded is dispatched exactly once, as
\* label + "." + tld to the host of the provider selected for the tld, and no
\* other name is dispatched; when the run completes every candidate was
\* dispatched and checked + failed is the size of the candidate space.
C18_EveryLabelDispatchedOnce ==
  (InRun /\ config.ok) =>
    /\ \A i \in 1..Len(RunLabels) :
         LET n == Cardinality(DispatchesOf(RunLabels[i] \o <<".">> \o config.topLevelDomain))
         IN  IF i <= Len(lookups) THEN n = 1 ELSE n = 0
    /\ \A k \in 1..Len(lookups) :
         /\ lookups[k].host = HostOf(config.topLevelDomain)
         /\ \E i \in 1..Len(RunLabels) :
              lookups[k].fqdn = RunLabels[i] \o <<".">> \o config.topLevelDomain
    /\ pc = "done" =>
         /\ Len(lookups) =
              Power(Len(ALPHABET), config.domainLength - Len(config.prefix) - Len(config.suffix))
         /\ checked + CountOutcome("failed") = Len(lookups)
C18_Witness ==
  /\ pc = "done"
  /\ config.topLevelDomain = TldEu
  /\ config.domainLength - Len(config.prefix) - Len(config.suffix) >= 1
  /\ Len(lookups) >= 2
  /\ CountOutcome("failed") = 1
  /\ checked = Len(lookups) - 1
  /\ lookups[1].host = "whois.eu"

\* C19: checked and taken never decrease and the available list only grows
\* at its end; at any time taken + |available| <= checked <= the number of
\* lookups dispatched so far, and checked is ahead of taken + |available| by
\* at most one, the candidate counted but not yet classified.
C19_AccumulatorStep ==
  /\ checked' >= checked
  /\ taken' >= taken
  /\ Len(availableDomains') >= Len(availableDomains)
  /\ SubSeq(availableDomains', 1, Len(availableDomains)) = availableDomains
C19_AccumulatorBounds ==
  /\ taken + Len(availableDomains) <= checked
  /\ checked <= Len(lookups)
  /\ checked - (taken + Len(availableDomains)) <= 1
  /\ checked - (taken + Len(availableDomains)) = 1 <=> pc = "record"
C19_AccumulatorsMonotonic == [][C19_AccumulatorStep]_vars /\ []C19_AccumulatorBounds
C19_Witness ==
  /\ pc = "record"
  /\ checked = 3
  /\ taken = 1
  /\ Len(availableDomains) = 1
  /\ Len(lookups) = 4

\* C14: while the process of the current lookup has emitted neither close
\* nor error, run() stays in the lookup: whatever else happens, no further
\* candidate is dispatched, no counter or list changes and no summary is
\* emitted; so a lookup that never completes blocks the run for good.
C14_BlockedStep ==
  (/\ InRun
   /\ pc = "lookup"
   /\ Running(lookups[Len(lookups)])
   /\ Running(lookups'[Len(lookups)])) =>
    /\ pc' = "lookup"
    /\ Len(lookups') = Len(lookups)
    /\ lookups'[Len(lookups)].promise = "pending"
    /\ UNCHANGED <<generator, domain, checked, taken, availableDomains, outcomes,
                   delayBefore, elapsed, summary, exitCode>>
C14_Blocked ==
  (InRun /\ pc = "lookup" /\ Running(lookups[Len(lookups)])) =>
    /\ lookups[Len(lookups)].promise = "pending"
    /\ summary = <<>>
    /\ Len(outcomes) = Len(lookups) - 1
C14_PendingLookupBlocksRun == [][C14_BlockedStep]_vars /\ []C14_Blocked
C14_Witness ==
  /\ pc = "lookup"
  /\ Len(lookups) = 2
  /\ Len(RunLabels) = 4
  /\ Running(lookups[2])
  /\ lookups[2].nOut = 1
  /\ lookups[2].nErr = 1
  /\ lookups[2].promise = "pending"
  /\ checked = 1

\* The letters of "status:", in any case, start at position i of the text.
StatusLabelAt(text, i) ==
  /\ i + 6 <= Len(text)
  /\ \A n \in 1..7 : ToLowerChar(text[i + n - 1]) = StatusWord[n]
\* A Status: field starts at position i of the text, its value being the
\* word at positions a..b: the label, white space if any, then the longest
\* run of word characters, which is not empty.
StatusFieldAt(text, i, a, b) ==
  /\ StatusLabelAt(text, i)
  /\ i + 7 <= a
  /\ a <= b
  /\ b <= Len(text)
  /\ \A j \in (i + 7)..(a - 1) : IsSpace(text[j])
  /\ \A j \in a..b : IsWord(text[j])
  /\ b < Len(text) => ~IsWord(text[b + 1])
HasStatusFieldAt(text, i) ==
  /\ StatusLabelAt(text, i)
  /\ \E a \in (i + 7)..Len(text) : \E b \in a..Len(text) : StatusFieldAt(text, i, a, b)
\* The first Status: field of the text has the value w, letter case ignored.
StatusValueIs(text, w) ==
  \E i \in 1..Len(text) :
    /\ StatusLabelAt(text, i)
    /\ \A j \in 1..(i - 1) : ~HasStatusFieldAt(text, j)
    /\ \E a \in (i + 7)..Len(text) :
         /\ StatusFieldAt(text, i, a, a + Len(w) - 1)
         /\ \A n \in 1..Len(w) : ToLowerChar(text[a + n - 1]) = w[n]
\* The text contains "no match", letter case ignored.
ContainsNoMatch(text) ==
  \E i \in 1..Len(text) :
    /\ i + 7 <= Len(text)
    /\ \A n \in 1..8 : ToLowerChar(text[i + n - 1]) = NoMatchWords[n]

\* C13: for every text the provider of de answers available exactly when
\* the text has a Status: field whose value is free, the provider of eu when
\* that value is available, and the provider of net and com when the text
\* contains "no match", letter case ignored in all three; the answer is
\* always a boolean, false for a text with no such field or phrase, and the
\* call never throws.
C13_Classification ==
  unit.fn = "isAvailable" =>
    /\ pc \in {"call", "returned"}
    /\ pc = "returned" =>
         /\ returned.kind = "boolean"
         /\ returned.b \in BOOLEAN
         /\ returned.b <=>
              CASE unit.tld = TldDe -> StatusValueIs(unit.output, FreeWord)
                [] unit.tld = TldEu -> StatusValueIs(unit.output, AvailableWord)
                [] unit.tld \in {TldNet, TldCom} -> ContainsNoMatch(unit.output)
C13_Witness ==
  /\ unit.fn = "isAvailable"
  /\ pc = "returned"
  /\ unit.tld = TldDe
  /\ unit.output = <<"\n", "S", "T", "A", "T", "U", "S", ":", "F", "r", "e", "e">>
  /\ returned = [kind |-> "boolean", b |-> TRUE]

\* C17: one whoisLookup call has one outcome, also when its child emits both
\* error and close, in either order: the first of the two events settles the
\* promise, and a settled promise never changes, so the later event changes
\* neither the outcome nor anything run() or the caller holds; run() takes
\* every lookup once, and no name is twice in the available list.
C17_EventStep ==
  \A k \in 1..Len(lookups) :
    LET before == lookups[k]
        after == lookups'[k]
    IN  /\ k <= Len(lookups')
        /\ (Running(before) /\ ~Running(after)) =>
             /\ before.promise = "pending"
             /\ after.promise # "pending"
        /\ before.promise # "pending" =>
             /\ after.promise = before.promise
             /\ after.value \in {before.value, NoValue}
        /\ (~Running(before) /\ <<after.errored, after.closed>> # <<before.errored, before.closed>>) =>
             /\ after.value = before.value
             /\ UNCHANGED <<pc, checked, taken, availableDomains, outcomes, summary,
                            returned, exitCode>>
C17_RecordedOnce ==
  /\ Len(outcomes) <= Len(lookups)
  /\ taken + Len(availableDomains) + CountOutcome("failed") = Len(outcomes)
  /\ \A i, j \in 1..Len(availableDomains) :
       availableDomains[i] = availableDomains[j] => i = j
  /\ (unit.fn = "whoisLookup" /\ pc \in {"returned", "threw"}) =>
       /\ returned.kind = lookups[1].promise
       /\ pc = "threw" <=> returned.kind = "rejected"
C17_OneOutcomePerLookup == [][C17_EventStep]_vars /\ []C17_RecordedOnce
C17_Witness ==
  /\ unit.fn = "whoisLookup"
  /\ pc = "returned"
  /\ lookups[1].closed
  /\ lookups[1].errored
  /\ lookups[1].promise = "resolved"
  /\ returned.kind = "resolved"
  /\ returned.value.available

\* The text reads H..Hh MMm SSs with n digits of hours and two digits of
\* minutes and of seconds, MM and SS are in 0..59, and the three fields add up
\* to the whole seconds of ms.
DurationRendered(text, ms, n) ==
  /\ Len(text) = n + 9
  /\ \A i \in (1..n) \cup {n + 3, n + 4, n + 7, n + 8} : text[i] \in Range(Digits)
  /\ <<text[n + 1], text[n + 2]>> = <<"h", " ">>
  /\ <<text[n + 5], text[n + 6]>> = <<"m", " ">>
  /\ text[n + 9] = "s"
  /\ LET HH == ParseDigits(SubSeq(text, 1, n), 0)
         MM == ParseDigits(SubSeq(text, n + 3, n + 4), 0)
         SS == ParseDigits(SubSeq(text, n + 7, n + 8), 0)
     IN  /\ MM \in 0..59
         /\ SS \in 0..59
         /\ (HH * 3600) + (MM * 60) + SS = ms \div 1000

\* As DurationRendered, the hours zero-padded to two digits and longer from
\* one hundred hours on.
DurationPadded(text, ms) ==
  \E n \in 2..Len(text) :
    /\ DurationRendered(text, ms, n)
    /\ n > 2 => text[1] # "0"
    /\ n = 2 <=> ms < 100 * 3600 * 1000

\* The report shows None exactly when the available list is empty, and the
\* names of the list otherwise.
NoneMarker ==
  \A i \in 1..Len(summary) :
    /\ summary[i].availableText = NoneText <=> summary[i].availableList = <<>>
    /\ summary[i].availableText = NoneText <=> summary[i].availableCount = 0
    /\ summary[i].availableList # <<>> =>
         summary[i].availableText = join(summary[i].availableList, <<",", " ">>)

\* C20 as stated: for every ms >= 0 formatDuration renders HHh MMm SSs with
\* two-digit fields, MM and SS in 0..59, and HH*3600 + MM*60 + SS equal to
\* floor(ms / 1000); the report shows None iff the available list is empty.
C20_TwoDigitFields ==
  /\ (unit.fn = "formatDuration" /\ pc = "returned") =>
       /\ returned.kind = "string"
       /\ DurationRendered(returned.s, unit.ms, 2)
  /\ \A i \in 1..Len(summary) :
       DurationRendered(summary[i].runtime, summary[i].durationMs, 2)
  /\ NoneMarker

\* C20 amended: the fields are zero-padded to at least two digits; minutes
\* and seconds always have two, the hours have two below one hundred hours
\* and as many as their decimal notation needs from there on; the fields add
\* up as stated, and the report shows None iff the available list is empty.
C20_PaddedFields ==
  /\ (unit.fn = "formatDuration" /\ pc = "returned") =>
       /\ returned.kind = "string"
       /\ DurationPadded(returned.s, unit.ms)
  /\ \A i \in 1..Len(summary) :
       DurationPadded(summary[i].runtime, summary[i].durationMs)
  /\ NoneMarker
C20_Witness ==
  /\ unit.fn = "formatDuration"
  /\ pc = "returned"
  /\ unit.ms = ((100 * 3600) + (59 * 60) + 10) * 1000 + 999
  /\ returned.s = <<"1", "0", "0", "h", " ", "5", "9", "m", " ", "1", "0", "s">>

\* C12: when every lookup settles, so that run() does not await one for
\* ever, a run that entered its loop reaches done;
\* the summary is emitted once, on reaching done, with the generator
\* exhausted and every candidate dispatched, settled and taken by run(); and
\* done is final.
C12_SummaryAtEnd ==
  InRun =>
    /\ Len(summary) <= 1
    /\ pc = "done" <=> Len(summary) = 1
    /\ pc = "done" =>
         /\ GeneratorNext(generator).done
         /\ Len(lookups) = Len(RunLabels)
         /\ Len(outcomes) = Len(RunLabels)
         /\ \A k \in 1..Len(lookups) : lookups[k].promise # "pending"
         /\ summary[1].checked + CountOutcome("failed") = Len(RunLabels)
C12_DoneStep == pc = "done" => pc' = "done" /\ summary' = summary
\* run() awaits a lookup that has not settled.
C12_AwaitsLookup == InRun /\ pc = "lookup" /\ lookups[Len(lookups)].promise = "pending"
C12_Terminates ==
  /\ []<>(~C12_AwaitsLookup) => ((InRun /\ pc = "loop") ~> (pc = "done"))
  /\ []C12_SummaryAtEnd
  /\ [][C12_DoneStep]_vars
C12_Witness ==
  /\ pc = "done"
  /\ Len(summary) = 1
  /\ Len(RunLabels) = 2
  /\ summary[1].checked = 1
  /\ outcomes[1] = "failed"
  /\ ~lookups[1].closed

====
